---- MODULE Spec2Model ----
(***************************************************************************)
(* Model of the defender scoring service: the HTTP handler predict_route   *)
(* (defender/__main__.py), the decision policy score_exe and the feature   *)
(* extraction wrapper (defender/inference_service.py), and the cached      *)
(* booster of defender/models/predict_xgb.py, run by concurrent callers    *)
(* (Flask request threads, the ThreadPoolExecutor workers of               *)
(* test_local.test_folder).                                                *)
(*                                                                         *)
(* Probabilities and thresholds are counted in tenths (5 stands for 0.5).  *)
(***************************************************************************)
EXTENDS Integers, FiniteSets, Sequences, TLC

\* ------------------------------------------------------------------ bounds
\* Callers that run concurrently in one process (two of the request threads,
\* or two of the MAX_WORKERS pool workers).
Threads == {"t1", "t2"}

\* Temporary file names mkstemp can hand out (names of removed files are reused).
MaxTmpFiles == 2
TmpNames == 1..MaxTmpFiles

\* Layers of wrappers a call can pass through before the interpreter's
\* recursion limit is reached (the limit, counted in wrapper layers).
RecursionLimit == 2

\* ------------------------------------------------------- program constants
SchemaWidth == 2381
DefaultThreshold == 5

\* -------------------------------------------------------------- input sets
Probabilities == {5, 6}
Thresholds == {DefaultThreshold, 6}
Widths == {SchemaWidth - 1, SchemaWidth, SchemaWidth + 1}
ContentTypes == {"application/octet-stream", "application/octet-stream; charset=binary", "text/plain"}
ModelPaths == {"None", "alt_model.json"}

\* What ember's (unpatched) PEFeatureExtractor.feature_vector does with the bytes.
FvOutcomes ==
    {[kind |-> "raise", width |-> 0], [kind |-> "None", width |-> 0]}
    \cup {[kind |-> "vec", width |-> w] : w \in Widths}

\* A byte content is abstracted by what the extractor makes of it (fv) and by
\* the probability the booster gives to the vector that reaches it (prob).
Scorable(fv) == fv.kind = "raise" \/ (fv.kind = "vec" /\ fv.width = SchemaWidth)
\* The booster's probability for the default vector [0.0] * 2381.
DefaultVectorProb == CHOOSE p \in Probabilities : TRUE
Contents ==
    {c \in [fv : FvOutcomes, prob : Probabilities] :
        IF c.fv.kind = "raise" THEN c.prob = DefaultVectorProb
        ELSE Scorable(c.fv) \/ c.prob = DefaultThreshold}
EmptyBody == [fv |-> [kind |-> "empty", width |-> 0], prob |-> DefaultThreshold]
Bodies == Contents \cup {EmptyBody}

\* Arrays a caller can hand to predict_label directly.
FeatureArrays ==
    {c \in Contents : c.fv.kind = "vec" /\ c.fv.width \in {SchemaWidth, SchemaWidth + 1}}

\* The programs of the repository: the Flask server of defender/__main__.py
\* (request threads run predict_route), test_local.py (pool workers run
\* score_exe), and scripts that use the extractor or the predictor directly.
Programs == {"defender", "test_local", "tools"}

NoCall ==
    [kind |-> "none", content_type |-> "none", body |-> EmptyBody,
     threshold |-> DefaultThreshold, model_path |-> "None"]

\* ---------------------------------------------------------------- outcomes
\* One record shape for score_exe's result, the handler's response, an array
\* returned by the extractor and an exception that left a function.
\* exc/fail of a "dict" are the exception score_exe swallowed and the step it
\* came from.
NoOutcome ==
    [kind |-> "none", status |-> 0, label |-> 0, prob |-> 0, threshold |-> 0,
     width |-> 0, exc |-> "none", fail |-> "none"]
Raised(e, f) == [NoOutcome EXCEPT !.kind = "raised", !.exc = e, !.fail = f]
Response(r, s) == [NoOutcome EXCEPT !.kind = "response", !.label = r, !.status = s]

NoArray == [kind |-> "none", width |-> 0, prob |-> 0]
NoVec == [kind |-> "none", width |-> 0]
None == [id |-> 0, path |-> "none"]

\* Exceptions that `except Exception` catches: SystemExit derives from
\* BaseException only.
IsException(e) == e # "SystemExit"

VARIABLES
    pc,              \* position of each thread
    call,            \* the call each thread is serving and its arguments
    tmp_path,        \* predict_route: name returned by mkstemp (0: none yet)
    X,               \* score_exe / predict_proba: the feature array in hand
    booster,         \* load_booster: the local variable booster
    res,             \* what score_exe gave back to its caller
    out,             \* what the entry point gave back to its caller
    CACHED_BOOSTER,  \* predict_xgb._CACHED_BOOSTER
    loads,           \* number of Booster objects loaded from disk so far
    disk,            \* temporary files present on disk
    importOutcome,   \* what `from defender.models.predict_xgb import ...` does
    program,         \* which program of the repository this process runs
    wrap_depth,      \* layers of patched_feature_vector around ember's feature_vector
    vec,             \* extract_features_from_exe: the local variable vec
    \* feature_extractor.py: one process constructing PEAttributeExtractor objects
    epc,             \* position of the extracting program
    instances,       \* the binaries of the PEAttributeExtractor objects constructed so far
    bytez,           \* self.bytez, a sequence of byte values
    lief_binary,     \* self.lief_binary: None, or what lief.PE.parse found
    class_attrs,     \* the class attributes libraries, functions, exports
    self_attrs,      \* attributes set on the instance (they shadow the class)
    attributes,      \* self.attributes
    ret,             \* outcome of the last method call on the instance
    features,        \* PEFeatureExtractor.features
    \* the batch tools: process_directory, test_folder, _eval_folder
    bpc,             \* position of the batch run
    tool,            \* which of the batch tools runs
    files,           \* the files of the folder, in the order they are listed
    expected,        \* the label the folder's files are expected to get
    pending,         \* indices of the files not handled yet
    rows,            \* process_directory: rows; test_folder: results
    errors,          \* the error entries collected (process_directory: printed)
    correct,         \* files counted as predicted correctly
    report,          \* what the tool returned
    \* predict_xgb.predict_proba on its own
    ppc,             \* position of the predict_proba call
    in_features,     \* the features argument: ndim, dtype, rows
    artifact,        \* the model file: boosting rounds, recorded best iteration
    loaded,          \* the booster load_booster returned
    evaluated,       \* the trees booster.predict evaluated
    perr,            \* the exception predict_proba raised
    \* ember_compat.apply_ember_lief_shims and the runtime test's check
    spc,             \* position of the shim run
    lief,            \* the lief module: importable, its attributes
    shim_exc,        \* the exception that left apply_ember_lief_shims or the check
    \* test/__main__.py main
    cpc,             \* position of main
    srcs,            \* what the -m and -b paths are: folder, archive, missing
    paths,           \* mal_path and ben_path (0: not bound, the source itself)
    tmpdirs,         \* temporary directories present on disk
    cleanup,         \* main's cleanup list
    cexit            \* how main ended

serviceVars == <<pc, call, tmp_path, X, booster, res, out, CACHED_BOOSTER, loads, disk, importOutcome, program, wrap_depth, vec>>
extractorVars == <<epc, instances, bytez, lief_binary, class_attrs, self_attrs, attributes, ret, features>>
batchVars == <<bpc, tool, files, expected, pending, rows, errors, correct, report>>
predictVars == <<ppc, in_features, artifact, loaded, evaluated, perr>>
shimVars == <<spc, lief, shim_exc>>
cliVars == <<cpc, srcs, paths, tmpdirs, cleanup, cexit>>
moreVars == <<predictVars, shimVars, cliVars>>
toolVars == <<extractorVars, batchVars, moreVars>>
vars == <<serviceVars, toolVars>>

\* lief.PE.parse gave no binary (Python's None).
NoBinary == [kind |-> "None"]
\* No method has been called on the instance.
NoReturn == [method |-> "none", exc |-> "none"]
\* The empty dict.
EmptyDict == [k \in {} |-> 0]

\* feature_extractor.py is not run by this process.
ExtractorIdle ==
    /\ epc = "off"
    /\ instances = <<>>
    /\ bytez = <<>>
    /\ lief_binary = NoBinary
    /\ class_attrs = [libraries |-> "", functions |-> "", exports |-> ""]
    /\ self_attrs = EmptyDict
    /\ attributes = EmptyDict
    /\ ret = NoReturn
    /\ features = <<>>

\* Nothing has been returned by a batch tool.
NoReport == [total_files |-> 0, correct |-> 0, errors |-> <<>>, written |-> <<>>]

\* No batch tool is run by this process.
BatchIdle ==
    /\ bpc = "off"
    /\ tool = "none"
    /\ files = <<>>
    /\ expected = 0
    /\ pending = {}
    /\ rows = <<>>
    /\ errors = <<>>
    /\ correct = 0
    /\ report = NoReport

\* No artifact, and the booster slot of a call that loaded nothing.
NoArtifact == [rounds |-> 0, recorded |-> FALSE, best_iteration |-> 0]
NoFeatures == [ndim |-> 0, dtype |-> "none", rows |-> 0]

\* predict_proba is not called on its own by this process.
PredictIdle ==
    /\ ppc = "off"
    /\ in_features = NoFeatures
    /\ artifact = NoArtifact
    /\ loaded = NoArtifact
    /\ evaluated = {}
    /\ perr = "none"

\* The lief module before any process looked at it.
NoLief == [importable |-> FALSE, lief_errors |-> FALSE, modern |-> {}, legacy |-> EmptyDict, section |-> {}]

\* apply_ember_lief_shims is not run by this process.
ShimsIdle ==
    /\ spc = "off"
    /\ lief = NoLief
    /\ shim_exc = "none"

\* The test CLI is not run by this process.
CliIdle ==
    /\ cpc = "off"
    /\ srcs = [mal |-> "none", ben |-> "none"]
    /\ paths = [mal |-> 0, ben |-> 0]
    /\ tmpdirs = {}
    /\ cleanup = <<>>
    /\ cexit = "none"

MoreIdle == PredictIdle /\ ShimsIdle /\ CliIdle

Init ==
    /\ ExtractorIdle
    /\ BatchIdle
    /\ MoreIdle
    /\ pc = [t \in Threads |-> "idle"]
    /\ call = [t \in Threads |-> NoCall]
    /\ tmp_path = [t \in Threads |-> 0]
    /\ X = [t \in Threads |-> NoArray]
    /\ booster = [t \in Threads |-> None]
    /\ res = [t \in Threads |-> NoOutcome]
    /\ out = [t \in Threads |-> NoOutcome]
    /\ CACHED_BOOSTER = None
    /\ loads = 0
    /\ disk = {}
    /\ importOutcome \in {"ok", "Exception", "SystemExit"}
    /\ program \in Programs
    /\ wrap_depth = 0
    /\ vec = [t \in Threads |-> NoVec]

\* ------------------------------------------------------------ pure helpers
\* predict_route without the empty-body test of line 34.
RejectRequest_NoEmptyTest(content_type, pe_bytes) ==
    content_type # "application/octet-stream"

\* predict_route: the two early returns (content type, empty body).
RejectRequest(content_type, pe_bytes) ==
    content_type # "application/octet-stream" \/ pe_bytes = EmptyBody

\* apply_runtime_fixes.patched_feature_vector: a raising extraction is
\* replaced by the default vector [0.0] * 2381; None and vectors pass through.
patched_feature_vector(fv) ==
    IF fv.kind = "raise" THEN [kind |-> "vec", width |-> SchemaWidth] ELSE fv

\* apply_runtime_fixes wraps the current PEFeatureExtractor.feature_vector once
\* more on every call (lines 69-81): after the call there are depth layers.
apply_runtime_fixes(depth) == IF depth > RecursionLimit THEN depth ELSE depth + 1

\* extractor.feature_vector(bytez) through depth layers of the wrapper: past
\* the recursion limit the call raises RecursionError inside a wrapper's try
\* block, and that wrapper returns the default vector.
feature_vector(fv, depth) ==
    IF depth > RecursionLimit
    THEN [kind |-> "vec", width |-> SchemaWidth]
    ELSE patched_feature_vector(fv)

\* A width test that only rejects vectors that are too short.
WidthMismatch_TooShortOnly(shape1) == shape1 < SchemaWidth

\* extract_features_from_exe: the width test after reshape(1, -1).
WidthMismatch(shape1) == shape1 # SchemaWidth

\* A strict comparison, prob > threshold.
ScoreLabel_Strict(prob, threshold) == IF prob > threshold THEN 1 ELSE 0

\* score_exe: label = int(prob >= threshold).
ScoreLabel(prob, threshold) == IF prob >= threshold THEN 1 ELSE 0

\* predict_label: (probs >= threshold).astype(np.int32).
predict_label(probs, threshold) == IF probs >= threshold THEN 1 ELSE 0

\* An except clause that answers malicious.
FailOpenDict_Malicious(e, f) ==
    [NoOutcome EXCEPT !.kind = "dict", !.label = 1, !.exc = e, !.fail = f]

\* score_exe's `except Exception: return {"label": 0}`.
FailOpenDict(e, f) ==
    [NoOutcome EXCEPT !.kind = "dict", !.label = 0, !.exc = e, !.fail = f]

\* mkstemp creates a file under a name that no file has and nobody holds.
FreeNames == {n \in TmpNames : n \notin disk /\ \A t \in Threads : tmp_path[t] # n}

\* ------------------------------------------------------------ control flow
\* score_exe hands r (its dict, or an exception it did not catch) to its
\* caller: predict_route goes on at line 48, any other caller gets r.
ScoreExeExit(t, r) ==
    /\ res' = [res EXCEPT ![t] = r]
    /\ IF call[t].kind = "route"
       THEN /\ pc' = [pc EXCEPT ![t] = "route_return"]
            /\ out' = out
       ELSE /\ pc' = [pc EXCEPT ![t] = "done"]
            /\ out' = [out EXCEPT ![t] = r]

\* Exception e is raised at step f.  Inside score_exe's try block it is
\* swallowed if `except Exception` matches; a direct caller of
\* extract_features_from_exe or predict_label receives it.
Raise(t, e, f) ==
    IF call[t].kind \in {"route", "score"}
    THEN ScoreExeExit(t, IF IsException(e) THEN FailOpenDict(e, f) ELSE Raised(e, f))
    ELSE /\ pc' = [pc EXCEPT ![t] = "done"]
         /\ out' = [out EXCEPT ![t] = Raised(e, f)]
         /\ res' = res

\* ----------------------------------------------------------- predict_route
\* A POST arrives; lines 29-35 check the content type and the body.
RouteCheck(t) ==
    /\ pc[t] = "idle"
    /\ program = "defender"
    /\ \E ct \in ContentTypes, b \in Bodies :
        /\ call' = [call EXCEPT ![t] = [NoCall EXCEPT !.kind = "route",
                                        !.content_type = ct, !.body = b]]
        /\ IF RejectRequest(ct, b)
           THEN /\ pc' = [pc EXCEPT ![t] = "done"]
                /\ out' = [out EXCEPT ![t] = Response(0, 400)]
           ELSE /\ pc' = [pc EXCEPT ![t] = "mkstemp"]
                /\ out' = out
    /\ UNCHANGED <<tmp_path, X, booster, res, CACHED_BOOSTER, loads, disk, importOutcome, program, wrap_depth, vec, toolVars>>

\* fd, tmp_path = tempfile.mkstemp(suffix='.exe'), outside the try block.
RouteMkstemp(t) ==
    /\ pc[t] = "mkstemp"
    /\ \/ /\ FreeNames # {}
          /\ LET n == CHOOSE m \in FreeNames : \A k \in FreeNames : m <= k IN
             /\ tmp_path' = [tmp_path EXCEPT ![t] = n]
             /\ disk' = disk \cup {n}
          /\ pc' = [pc EXCEPT ![t] = "close"]
          /\ out' = out
       \/ /\ pc' = [pc EXCEPT ![t] = "done"]
          /\ out' = [out EXCEPT ![t] = Raised("OSError", "mkstemp")]
          /\ UNCHANGED <<tmp_path, disk>>
    /\ UNCHANGED <<call, X, booster, res, CACHED_BOOSTER, loads, importOutcome, program, wrap_depth, vec, toolVars>>

\* os.close(fd), still outside the try block.
RouteClose(t) ==
    /\ pc[t] = "close"
    /\ \/ /\ pc' = [pc EXCEPT ![t] = "write"]
          /\ out' = out
       \/ /\ pc' = [pc EXCEPT ![t] = "done"]
          /\ out' = [out EXCEPT ![t] = Raised("OSError", "close")]
    /\ UNCHANGED <<call, tmp_path, X, booster, res, CACHED_BOOSTER, loads, disk, importOutcome, program, wrap_depth, vec, toolVars>>

\* Lines 41-46: write the bytes and call score_exe(tmp_path); a failed write
\* is answered by the except clause of line 49.
RouteWrite(t) ==
    /\ pc[t] = "write"
    /\ \/ /\ pc' = [pc EXCEPT ![t] = "import"]
          /\ out' = out
       \/ /\ pc' = [pc EXCEPT ![t] = "finally"]
          /\ out' = [out EXCEPT ![t] = [Response(0, 500) EXCEPT !.exc = "OSError", !.fail = "write"]]
    /\ UNCHANGED <<call, tmp_path, X, booster, res, CACHED_BOOSTER, loads, disk, importOutcome, program, wrap_depth, vec, toolVars>>

\* Lines 48-51: the response built from score_exe's result.  An exception that
\* left score_exe is answered 500 if `except Exception` matches it and
\* otherwise keeps propagating.
RouteReturn(t) ==
    /\ pc[t] = "route_return"
    /\ out' = [out EXCEPT ![t] =
                 IF res[t].kind = "dict" THEN Response(res[t].label, 200)
                 ELSE IF IsException(res[t].exc)
                      THEN [Response(0, 500) EXCEPT !.exc = res[t].exc, !.fail = res[t].fail]
                      ELSE res[t]]
    /\ pc' = [pc EXCEPT ![t] = "finally"]
    /\ UNCHANGED <<call, tmp_path, X, booster, res, CACHED_BOOSTER, loads, disk, importOutcome, program, wrap_depth, vec, toolVars>>

\* Lines 52-56: finally: os.remove(tmp_path), a failure of which is passed over.
RouteFinally(t) ==
    /\ pc[t] = "finally"
    /\ \/ disk' = disk \ {tmp_path[t]}
       \/ disk' = disk
    /\ pc' = [pc EXCEPT ![t] = "done"]
    /\ UNCHANGED <<call, tmp_path, X, booster, res, out, CACHED_BOOSTER, loads, importOutcome, program, wrap_depth, vec, toolVars>>

\* --------------------------------------------------------------- score_exe
\* test_local.test_file / _cli call score_exe(path, threshold) on a file.
ScoreCall(t) ==
    /\ pc[t] = "idle"
    /\ program = "test_local"
    /\ \E c \in Contents, th \in Thresholds :
        call' = [call EXCEPT ![t] = [NoCall EXCEPT !.kind = "score", !.body = c,
                                     !.threshold = th]]
    /\ pc' = [pc EXCEPT ![t] = "import"]
    /\ UNCHANGED <<tmp_path, X, booster, res, out, CACHED_BOOSTER, loads, disk, importOutcome, program, wrap_depth, vec, toolVars>>

\* Lines 113-119: import predict_proba, predict_label.  An Exception of the
\* first import is caught and the import retried inside the outer try; the
\* SystemExit predict_xgb raises when xgboost is missing is no Exception.
ScoreImport(t) ==
    /\ pc[t] = "import"
    /\ IF importOutcome = "ok"
       THEN /\ pc' = [pc EXCEPT ![t] = "extract"]
            /\ UNCHANGED <<res, out>>
       ELSE Raise(t, importOutcome, "import")
    /\ UNCHANGED <<call, tmp_path, X, booster, CACHED_BOOSTER, loads, disk, importOutcome, program, wrap_depth, vec, toolVars>>

\* ----------------------------------------------- extract_features_from_exe
\* test_ember_compat_runtime.main calls the extractor directly.
ExtractCall(t) ==
    /\ pc[t] = "idle"
    /\ program = "tools"
    /\ \E c \in Contents :
        call' = [call EXCEPT ![t] = [NoCall EXCEPT !.kind = "extract", !.body = c]]
    /\ pc' = [pc EXCEPT ![t] = "extract"]
    /\ UNCHANGED <<tmp_path, X, booster, res, out, CACHED_BOOSTER, loads, disk, importOutcome, program, wrap_depth, vec, toolVars>>

\* The array extract_features_from_exe returns for a vector of that width.
AsArray(v, c) == [kind |-> "array", width |-> v.width, prob |-> c.prob]

\* Lines 90-107.  env is what the surroundings do: "ok", ember cannot be
\* imported (lines 64 and 91, no wrapper is installed then), or the file
\* cannot be read (line 93).
ExtractFeatures(t) ==
    /\ pc[t] = "extract"
    /\ \E env \in {"ok", "ImportError", "OSError"} :
        LET depth == IF env = "ImportError" THEN wrap_depth ELSE apply_runtime_fixes(wrap_depth)
            v == feature_vector(call[t].body.fv, depth)
            content == IF depth > RecursionLimit
                       THEN [call[t].body EXCEPT !.prob = DefaultVectorProb]
                       ELSE call[t].body
        IN
        /\ wrap_depth' = depth
        /\ vec' = [vec EXCEPT ![t] = IF env = "ok" THEN v ELSE NoVec]
        /\ IF env # "ok" THEN
               /\ Raise(t, env, "read")
               /\ X' = X
           ELSE IF v.kind = "None" THEN
               /\ Raise(t, "ValueError", "extract")
               /\ X' = X
           ELSE IF WidthMismatch(v.width) THEN
               /\ Raise(t, "ValueError", "width")
               /\ X' = X
           ELSE
               /\ X' = [X EXCEPT ![t] = AsArray(v, content)]
               /\ IF call[t].kind = "extract"
                  THEN /\ pc' = [pc EXCEPT ![t] = "done"]
                       /\ out' = [out EXCEPT ![t] = [NoOutcome EXCEPT !.kind = "array",
                                                       !.width = v.width]]
                  ELSE /\ pc' = [pc EXCEPT ![t] = "predict_proba"]
                       /\ out' = out
               /\ res' = res
    /\ UNCHANGED <<call, tmp_path, booster, CACHED_BOOSTER, loads, disk, importOutcome, program, toolVars>>

\* ------------------------------------------------------------- predict_xgb
\* A caller uses predict_label(features, threshold, model_path) directly.
LabelCall(t) ==
    /\ pc[t] = "idle"
    /\ program = "tools"
    /\ importOutcome = "ok"
    /\ \E c \in FeatureArrays, th \in Thresholds, mp \in ModelPaths :
        /\ call' = [call EXCEPT ![t] = [NoCall EXCEPT !.kind = "label", !.body = c,
                                        !.threshold = th, !.model_path = mp]]
        /\ X' = [X EXCEPT ![t] = AsArray(c.fv, c)]
    /\ pc' = [pc EXCEPT ![t] = "predict_proba"]
    /\ UNCHANGED <<tmp_path, booster, res, out, CACHED_BOOSTER, loads, disk, importOutcome, program, wrap_depth, vec, toolVars>>

\* load_booster lines 16-18 (reached from predict_proba line 33): the cache
\* test.  The arrays of this model are all 2-D, so line 29 never raises.
LoadBoosterCheck(t) ==
    /\ pc[t] = "predict_proba"
    /\ IF CACHED_BOOSTER # None
       THEN /\ booster' = [booster EXCEPT ![t] = CACHED_BOOSTER]
            /\ pc' = [pc EXCEPT ![t] = "predict"]
       ELSE /\ booster' = booster
            /\ pc' = [pc EXCEPT ![t] = "lb_exists"]
    /\ UNCHANGED <<call, tmp_path, X, res, out, CACHED_BOOSTER, loads, disk, importOutcome, program, wrap_depth, vec, toolVars>>

\* load_booster without the os.path.exists test: the missing file is met by
\* load_model, which raises its own error.
LoadBoosterExists_NoTest(t) ==
    /\ pc[t] = "lb_exists"
    /\ \E exists \in BOOLEAN :
        IF ~exists
        THEN Raise(t, "XGBoostError", "load_missing")
        ELSE /\ pc' = [pc EXCEPT ![t] = "lb_load"]
             /\ UNCHANGED <<res, out>>
    /\ UNCHANGED <<call, tmp_path, X, booster, CACHED_BOOSTER, loads, disk, importOutcome, program, wrap_depth, vec, toolVars>>

\* load_booster lines 19-21: path = model_path or _MODEL_PATH; os.path.exists.
LoadBoosterExists(t) ==
    /\ pc[t] = "lb_exists"
    /\ \E exists \in BOOLEAN :
        IF ~exists
        THEN Raise(t, "FileNotFoundError", "load_missing")
        ELSE /\ pc' = [pc EXCEPT ![t] = "lb_load"]
             /\ UNCHANGED <<res, out>>
    /\ UNCHANGED <<call, tmp_path, X, booster, CACHED_BOOSTER, loads, disk, importOutcome, program, wrap_depth, vec, toolVars>>

\* A load_booster that caches the new Booster before load_model has read the
\* artifact into it.
LoadBoosterLoad_CacheFirst(t) ==
    /\ pc[t] = "lb_load"
    /\ CACHED_BOOSTER' = [id |-> loads + 1, path |-> call[t].model_path]
    /\ \E readable \in BOOLEAN :
        IF ~readable
        THEN /\ Raise(t, "XGBoostError", "load_unreadable")
             /\ UNCHANGED <<booster, loads>>
        ELSE /\ loads' = loads + 1
             /\ booster' = [booster EXCEPT ![t] =
                              [id |-> loads + 1, path |-> call[t].model_path]]
             /\ pc' = [pc EXCEPT ![t] = "lb_store"]
             /\ UNCHANGED <<res, out>>
    /\ UNCHANGED <<call, tmp_path, X, disk, importOutcome, program, wrap_depth, vec, toolVars>>

\* load_booster lines 22-23: booster = xgb.Booster(); booster.load_model(path).
LoadBoosterLoad(t) ==
    /\ pc[t] = "lb_load"
    /\ \E readable \in BOOLEAN :
        IF ~readable
        THEN /\ Raise(t, "XGBoostError", "load_unreadable")
             /\ UNCHANGED <<booster, loads>>
        ELSE /\ loads' = loads + 1
             /\ booster' = [booster EXCEPT ![t] =
                              [id |-> loads + 1, path |-> call[t].model_path]]
             /\ pc' = [pc EXCEPT ![t] = "lb_store"]
             /\ UNCHANGED <<res, out>>
    /\ UNCHANGED <<call, tmp_path, X, CACHED_BOOSTER, disk, importOutcome, program, wrap_depth, vec, toolVars>>

\* load_booster lines 24-25: _CACHED_BOOSTER = booster; return booster.
LoadBoosterStore(t) ==
    /\ pc[t] = "lb_store"
    /\ CACHED_BOOSTER' = booster[t]
    /\ pc' = [pc EXCEPT ![t] = "predict"]
    /\ UNCHANGED <<call, tmp_path, X, booster, res, out, loads, disk, importOutcome, program, wrap_depth, vec, toolVars>>

\* predict_proba lines 34-41 and what the caller makes of the probability:
\* score_exe lines 122-129, predict_label line 46.  booster.predict rejects
\* an array whose width is not the booster's, and may fail otherwise.
Predict(t) ==
    /\ pc[t] = "predict"
    /\ \E ok \in BOOLEAN :
        IF ~ok \/ X[t].width # SchemaWidth THEN
            Raise(t, "XGBoostError", "score")
        ELSE IF call[t].kind = "label" THEN
            /\ pc' = [pc EXCEPT ![t] = "done"]
            /\ out' = [out EXCEPT ![t] =
                         [NoOutcome EXCEPT !.kind = "labels", !.prob = X[t].prob,
                            !.threshold = call[t].threshold,
                            !.label = predict_label(X[t].prob, call[t].threshold)]]
            /\ res' = res
        ELSE
            ScoreExeExit(t, [NoOutcome EXCEPT !.kind = "dict", !.prob = X[t].prob,
                               !.label = ScoreLabel(X[t].prob, call[t].threshold),
                               !.threshold = call[t].threshold,
                               !.width = X[t].width])
    /\ UNCHANGED <<call, tmp_path, X, booster, CACHED_BOOSTER, loads, disk, importOutcome, program, wrap_depth, vec, toolVars>>

\* ------------------------------------------------------------------ caller
\* The caller takes the outcome; the thread is free for the next call.
Return(t) ==
    /\ pc[t] = "done"
    /\ pc' = [pc EXCEPT ![t] = "idle"]
    /\ call' = [call EXCEPT ![t] = NoCall]
    /\ tmp_path' = [tmp_path EXCEPT ![t] = 0]
    /\ X' = [X EXCEPT ![t] = NoArray]
    /\ booster' = [booster EXCEPT ![t] = None]
    /\ res' = [res EXCEPT ![t] = NoOutcome]
    /\ out' = [out EXCEPT ![t] = NoOutcome]
    /\ vec' = [vec EXCEPT ![t] = NoVec]
    /\ UNCHANGED <<CACHED_BOOSTER, loads, disk, importOutcome, program, wrap_depth, toolVars>>

Next ==
    \E t \in Threads :
        \/ RouteCheck(t)
        \/ RouteMkstemp(t)
        \/ RouteClose(t)
        \/ RouteWrite(t)
        \/ RouteReturn(t)
        \/ RouteFinally(t)
        \/ ScoreCall(t)
        \/ ScoreImport(t)
        \/ ExtractCall(t)
        \/ ExtractFeatures(t)
        \/ LabelCall(t)
        \/ LoadBoosterCheck(t)
        \/ LoadBoosterExists(t)
        \/ LoadBoosterLoad(t)
        \/ LoadBoosterStore(t)
        \/ Predict(t)
        \/ Return(t)

Spec == Init /\ [][Next]_vars

\* ================================================================== claims
\* The outcome that records the failure of thread t's call, if any: the
\* exception score_exe swallowed or passed on, else what the entry point gave.
FailureOf(t) == IF res[t].fail # "none" THEN res[t] ELSE out[t]
InScoreExe(t) == call[t].kind \in {"route", "score"}
Answered(t) == call[t].kind = "route" /\ pc[t] = "done"

\* C1: score_exe is fail-open: whenever it has given control back to its
\* caller it has returned a dict, never an exception, and after a failure in
\* any step (import, read, extraction, width, load, scoring) the label is 0.
C1_ScoreExeFailOpen ==
    \A t \in Threads :
        res[t].kind # "none" =>
            /\ res[t].kind = "dict"
            /\ res[t].fail # "none" => res[t].label = 0

C3_FailureIs5xx ==
    \A t \in Threads :
        (Answered(t) /\ FailureOf(t).fail \notin {"none", "mkstemp", "close"}) =>
            /\ out[t].kind = "response"
            /\ out[t].label = 0
            /\ out[t].status \in 500..599

\* C4: a POST whose content type is not exactly application/octet-stream, or
\* whose body is empty, is answered {"result": 0} with status 400; no
\* temporary file is created for it and nothing is extracted or scored.
C4_BadRequest ==
    \A t \in Threads :
        (call[t].kind = "route"
           /\ (call[t].content_type # "application/octet-stream" \/ call[t].body = EmptyBody)) =>
            /\ pc[t] = "done"
            /\ out[t] = Response(0, 400)
            /\ tmp_path[t] = 0
            /\ res[t] = NoOutcome
            /\ X[t] = NoArray
            /\ booster[t] = None

C4_Witness ==
    \E t, u \in Threads :
        /\ Answered(t) /\ call[t].content_type # "application/octet-stream"
        /\ call[t].body # EmptyBody /\ out[t].status = 400
        /\ Answered(u) /\ call[u].content_type = "application/octet-stream"
        /\ call[u].body = EmptyBody /\ out[u].status = 400

\* C5: for every request body predict_route ends with a response
\* {"result": r}, r in {0, 1}; no exception leaves the handler.
C5_AlwaysResponse ==
    \A t \in Threads :
        Answered(t) => (out[t].kind = "response" /\ out[t].label \in {0, 1})

\* C6: when predict_route is over, the temporary file it created is gone,
\* whatever the exit path after mkstemp.
C6_TmpFileDeleted ==
    \A t \in Threads :
        (Answered(t) /\ tmp_path[t] # 0) => tmp_path[t] \notin disk

\* C7: under every interleaving the artifact is loaded from disk at most once
\* per process and all callers use the same booster object.
C7_SingleInit ==
    /\ loads <= 1
    /\ \A t, u \in Threads :
        (pc[t] = "predict" /\ pc[u] = "predict") => booster[t] = booster[u]

\* C8: once a booster is cached, no step replaces it or loads another one.
C8_NeverReloaded ==
    [][CACHED_BOOSTER # None => (CACHED_BOOSTER' = CACHED_BOOSTER /\ loads' = loads)]_vars

LoadFailed(t) == FailureOf(t).fail \in {"load_missing", "load_unreadable"}

C10_SchemaWidth ==
    \A t \in Threads :
        call[t].kind \in {"route", "score", "extract"} =>
            /\ X[t] # NoArray => (X[t].width = 2381 /\ vec[t].kind = "vec" /\ vec[t].width = 2381)
            /\ out[t].kind = "array" => (out[t].width = 2381 /\ vec[t].width = 2381)
            /\ (vec[t].kind = "vec" /\ vec[t].width # 2381) =>
                /\ X[t] = NoArray
                /\ booster[t] = None
                /\ FailureOf(t).fail = "width"
                /\ FailureOf(t).exc = "ValueError"
                /\ call[t].kind = "extract" => (out[t].kind = "raised" /\ pc[t] = "done")
                /\ call[t].kind # "extract" => pc[t] \in {"route_return", "finally", "done"}

C10_Witness ==
    \E t, u \in Threads :
        /\ call[t].kind = "extract" /\ vec[t].kind = "vec" /\ vec[t].width = 2381 + 1
        /\ out[t].kind = "raised" /\ out[t].fail = "width"
        /\ call[u].kind = "extract" /\ out[u].kind = "array"

\* C11: vectorization never substitutes: when feature extraction raises for
\* an input, no vector is produced for it, nothing is scored in its place and
\* score_exe reports a failure.
C11_NoSubstitution ==
    \A t \in Threads :
        (call[t].kind \in {"route", "score", "extract"} /\ call[t].body.fv.kind = "raise") =>
            /\ vec[t] = NoVec
            /\ X[t] = NoArray
            /\ out[t].kind # "array"
            /\ res[t].kind = "dict" => res[t].fail # "none"

\* Failures that come from the surroundings of a call, not from the bytes.
EnvFailures == {"import", "read", "load_missing", "load_unreadable", "score"}

\* C12: two score_exe calls of one process on the same bytes with the same
\* threshold, neither of them hit by a failure of its surroundings, return the
\* same probability and the same label, whatever was called before them.
C12_Deterministic ==
    \A t, u \in Threads :
        (/\ call[t].kind = "score" /\ pc[t] = "done"
         /\ call[u].kind = "score" /\ pc[u] = "done"
         /\ call[t].body = call[u].body
         /\ call[t].threshold = call[u].threshold
         /\ res[t].fail \notin EnvFailures
         /\ res[u].fail \notin EnvFailures) =>
            /\ res[t].kind = res[u].kind
            /\ res[t].prob = res[u].prob
            /\ res[t].label = res[u].label

\* C21: predict_proba tests the width of the features itself: an array whose
\* second dimension is not the schema width fails with SchemaMismatchError,
\* and no probability is produced for it.
C21_WidthValidated ==
    \A t \in Threads :
        (call[t].kind = "label" /\ X[t].width # SchemaWidth /\ pc[t] = "done") =>
            /\ out[t].kind = "raised"
            /\ out[t].exc = "SchemaMismatchError"

\* C24: apply_runtime_fixes is idempotent: after any number of calls the
\* original feature_vector is wrapped exactly once.
C24_WrappedOnce == wrap_depth <= 1

\* C26: a load_booster call that fails hands out no booster and leaves the
\* cache alone: what is cached is always a booster whose load_model completed,
\* and while no load has completed the cache is unset.
C26_FailedLoadNotCached ==
    /\ CACHED_BOOSTER # None =>
        (CACHED_BOOSTER.id \in 1..loads /\ CACHED_BOOSTER.path \in ModelPaths)
    /\ loads = 0 => CACHED_BOOSTER = None
    /\ \A t \in Threads : LoadFailed(t) => booster[t] = None

\* One call failed to load the artifact; another call loaded it and cached it.
C26_Witness ==
    \E t, u \in Threads :
        /\ LoadFailed(t) /\ pc[t] = "done"
        /\ pc[u] = "predict"
        /\ booster[u] # None
        /\ CACHED_BOOSTER = booster[u]
        /\ loads = 1

\* ====================================================== feature_extractor.py
\* Byte strings are sequences of byte values; text is written in ASCII codes.
MaxChunks == 2

pat_paths == <<99, 58, 92>>                         \* c:\
pat_http == <<104, 116, 116, 112, 58, 47, 47>>      \* http://
pat_https == <<104, 116, 116, 112, 115, 58, 47, 47>> \* https://
pat_registry == <<72, 75, 69, 89, 95>>              \* HKEY_
pat_mz == <<77, 90>>                                \* MZ

\* The pieces the byte inputs are put together from: the four markers in
\* several letter cases, and a zero byte.
Chunks ==
    { pat_paths, <<67, 58, 92>>,                    \* c:\  C:\
      pat_http, <<72, 84, 84, 80, 83, 58, 47, 47>>, \* http://  HTTPS://
      pat_registry, <<104, 107, 101, 121, 95>>,     \* HKEY_  hkey_
      pat_mz, <<109, 122>>,                         \* MZ  mz
      <<0>> }

RECURSIVE Concat(_)
Concat(cs) == IF cs = <<>> THEN <<>> ELSE Head(cs) \o Concat(Tail(cs))

\* A buffer holding each byte value exactly once.
EachByteOnce == [i \in 1..256 |-> i - 1]

ByteInputs ==
    {Concat(cs) : cs \in UNION {[1..n -> Chunks] : n \in 0..MaxChunks}} \cup {EachByteOnce}

\* re.IGNORECASE on one byte: ASCII letters compare by their lower case.
Lower(b) == IF b \in 65..90 THEN b + 32 ELSE b

\* Whether the literal pat matches the buffer b at position i.
MatchesAt(b, pat, i, ignorecase) ==
    /\ i + Len(pat) - 1 <= Len(b)
    /\ \A j \in 1..Len(pat) :
        IF ignorecase THEN Lower(b[i + j - 1]) = Lower(pat[j]) ELSE b[i + j - 1] = pat[j]

\* len(pattern.findall(b)) from position i on: the scan goes left to right,
\* takes the first position at which the pattern matches and resumes behind
\* that match; alts are the literals the pattern stands for.
RECURSIVE len_findall(_, _, _, _)
len_findall(b, alts, ignorecase, i) ==
    LET starts == {k \in i..Len(b) : \E a \in alts : MatchesAt(b, a, k, ignorecase)}
        first == CHOOSE k \in starts : \A k2 \in starts : k <= k2
        m == {a \in alts : MatchesAt(b, a, first, ignorecase)}
        longest == CHOOSE a \in m : \A a2 \in m : Len(a) >= Len(a2)
    IN IF starts = {} THEN 0
       ELSE 1 + len_findall(b, alts, ignorecase, first + Len(longest))

\* bytes(x) for an integer x: a buffer of x zero bytes.
bytes(x) == [i \in 1..x |-> 0]

\* bytes.count(sub): non-overlapping occurrences; len + 1 for the empty sub.
count(b, sub) == IF sub = <<>> THEN Len(b) + 1 ELSE len_findall(b, {sub}, FALSE, 1)

\* The entropy sum is kept as its terms: counts[x] / len is p_x, and the value
\* is the sum of -p_x * log2(p_x) over the x with p_x > 0.
ZeroEntropy == [len |-> 0, counts |-> [x \in 0..255 |-> 0]]

\* PEAttributeExtractor.extract_entropy
extract_entropy(b) ==
    IF b = <<>> THEN ZeroEntropy
    ELSE [len |-> Len(b), counts |-> [x \in 0..255 |-> count(b, bytes(x))]]

\* extract_string_metadata with re.IGNORECASE on the registry pattern too.
extract_string_metadata_RegistryAnyCase(b) ==
    [string_paths |-> len_findall(b, {pat_paths}, TRUE, 1),
     string_urls |-> len_findall(b, {pat_http, pat_https}, TRUE, 1),
     string_registry |-> len_findall(b, {pat_registry}, TRUE, 1),
     string_MZ |-> len_findall(b, {pat_mz}, FALSE, 1)]

\* PEAttributeExtractor.extract_string_metadata
extract_string_metadata(b) ==
    [string_paths |-> len_findall(b, {pat_paths}, TRUE, 1),
     string_urls |-> len_findall(b, {pat_http, pat_https}, TRUE, 1),
     string_registry |-> len_findall(b, {pat_registry}, FALSE, 1),
     string_MZ |-> len_findall(b, {pat_mz}, FALSE, 1)]

MaxInstances == 2

\* What lief.PE.parse(list(bytez)) gives: nothing, or a binary. Of a binary
\* the model keeps whether it has imports and exports and whether it is a
\* PE32+ image, whose optional header has no BaseOfData field.
LiefBinaries ==
    [kind : {"Binary"}, has_imports : BOOLEAN, has_exports : BOOLEAN,
     pe32plus : BOOLEAN, baseof_data : {8192}]
ParseOutcomes == {NoBinary} \cup LiefBinaries

\* " ".join(...) over the binary's libraries, imported and exported functions.
lief_libraries(lb) == IF lb.has_imports THEN "kernel32.dll" ELSE ""
lief_functions(lb) == IF lb.has_imports THEN "CreateFileA" ELSE ""
lief_exports(lb) == IF lb.has_exports THEN "DllMain" ELSE ""

\* Reading self.lief_binary.optional_header.baseof_data.
read_baseof_data(lb) ==
    IF lb.pe32plus THEN [exc |-> "not_found", value |-> 0]
    ELSE [exc |-> "none", value |-> lb.baseof_data]

\* extract without the try/except of lines 120-123.
baseof_data_NoTry(lb) == read_baseof_data(lb)

\* extract, lines 120-123: any failure of the read gives 0.
baseof_data(lb) ==
    IF read_baseof_data(lb).exc # "none" THEN [exc |-> "none", value |-> 0]
    ELSE read_baseof_data(lb)

\* Attribute lookup on an instance: the instance first, then the class.
getattr(cls, inst, name) == IF name \in DOMAIN inst THEN inst[name] ELSE cls[name]

\* An assignment self.name = value that lands on the class.
setattr_OnClass(cls, inst, name, value) ==
    [cls |-> [cls EXCEPT ![name] = value], inst |-> inst]

\* self.name = value sets the attribute on the instance.
setattr(cls, inst, name, value) ==
    [cls |-> cls, inst |-> (name :> value) @@ inst]

\* dict.update
update(d, other) == other @@ d

GeneralKeys ==
    {"size", "virtual_size", "has_debug", "imports", "exports", "has_relocations",
     "has_resources", "has_signature", "has_tls", "symbols"}
HeaderKeys ==
    {"timestamp", "machine", "numberof_sections", "numberof_symbols",
     "pointerto_symbol_table", "sizeof_optional_header", "characteristics",
     "characteristics_list"}
OptionalHeaderKeys ==
    {"baseof_code", "baseof_data", "dll_characteristics", "dll_characteristics_list",
     "file_alignment", "imagebase", "magic", "PE_TYPE", "major_image_version",
     "minor_image_version", "major_linker_version", "minor_linker_version",
     "major_operating_system_version", "minor_operating_system_version",
     "major_subsystem_version", "minor_subsystem_version", "numberof_rva_and_size",
     "sizeof_code", "sizeof_headers", "sizeof_heap_commit", "sizeof_image",
     "sizeof_initialized_data", "sizeof_uninitialized_data", "subsystem"}
\* Every key of the dict a completed extract() returns.
AttributeKeys ==
    GeneralKeys \cup HeaderKeys \cup OptionalHeaderKeys
    \cup {"entropy", "string_paths", "string_urls", "string_registry", "string_MZ",
          "functions", "libraries", "exports_list", "identify"}

\* PEAttributeExtractor.extract_identify
extract_identify == ""

\* lief gives a binary only for bytes that begin with the MZ magic; bytes
\* that begin with it may still fail to parse.
ParseOutcomesOf(b) ==
    IF Len(b) >= 2 /\ SubSeq(b, 1, 2) = pat_mz THEN ParseOutcomes ELSE {NoBinary}

\* The contents of the files the extracting program reads.
FileContents == {<<>>, pat_mz, pat_mz \o pat_registry}

\* PEAttributeExtractor.__init__
Construct ==
    /\ epc \in {"start", "raised", "extracted", "vectorized"}
    /\ Len(instances) < MaxInstances
    /\ \E b \in FileContents :
        \E lb \in ParseOutcomesOf(b) :
            /\ bytez' = b
            /\ lief_binary' = lb
            /\ instances' = Append(instances, lb)
    /\ attributes' = EmptyDict
    /\ self_attrs' = EmptyDict
    /\ ret' = NoReturn
    /\ features' = <<>>
    /\ epc' = "ready"
    /\ UNCHANGED <<class_attrs, serviceVars, batchVars, moreVars>>

\* A call of extract_entropy on the instance.
CallExtractEntropy ==
    /\ epc = "ready"
    /\ ret' = [method |-> "extract_entropy", exc |-> "none", value |-> extract_entropy(bytez)]
    /\ UNCHANGED <<epc, instances, bytez, lief_binary, class_attrs, self_attrs, attributes, features, serviceVars, batchVars, moreVars>>

\* A call of extract_string_metadata on the instance.
CallExtractStringMetadata ==
    /\ epc = "ready"
    /\ ret' = [method |-> "extract_string_metadata", exc |-> "none", value |-> extract_string_metadata(bytez)]
    /\ UNCHANGED <<epc, instances, bytez, lief_binary, class_attrs, self_attrs, attributes, features, serviceVars, batchVars, moreVars>>

\* extract, lines 80-118: the general and the header attributes.
HeaderAttributes(b, attrs) ==
    update(update(attrs, [k \in GeneralKeys |-> IF k = "size" THEN Len(b) ELSE "lief"]),
           [k \in HeaderKeys |-> "lief"])

\* PEAttributeExtractor.extract. With no binary the first read of
\* self.lief_binary raises AttributeError before any update of the dict.
CallExtract ==
    /\ epc = "ready"
    /\ IF lief_binary = NoBinary
       THEN /\ ret' = [method |-> "extract", exc |-> "AttributeError"]
            /\ epc' = "raised"
            /\ UNCHANGED <<attributes, class_attrs, self_attrs>>
       ELSE LET lb == lief_binary
                a1 == HeaderAttributes(bytez, attributes)
                bod == baseof_data(lb)
                a2 == update(a1, [k \in OptionalHeaderKeys |->
                                    IF k = "baseof_data" THEN bod.value ELSE "lief"])
                a3 == update(a2, "entropy" :> extract_entropy(bytez))
                a4 == update(a3, extract_string_metadata(bytez))
                o0 == [cls |-> class_attrs, inst |-> self_attrs]
                o1 == IF lb.has_imports
                      THEN setattr(o0.cls, o0.inst, "libraries", lief_libraries(lb)) ELSE o0
                o2 == IF lb.has_imports
                      THEN setattr(o1.cls, o1.inst, "functions", lief_functions(lb)) ELSE o1
                a5 == update(a4, [functions |-> getattr(o2.cls, o2.inst, "functions"),
                                  libraries |-> getattr(o2.cls, o2.inst, "libraries")])
                o3 == IF lb.has_exports
                      THEN setattr(o2.cls, o2.inst, "exports", lief_exports(lb)) ELSE o2
                a6 == update(a5, [exports_list |-> getattr(o3.cls, o3.inst, "exports")])
                a7 == update(a6, [identify |-> extract_identify])
            IN IF bod.exc # "none"
               THEN /\ attributes' = a1
                    /\ ret' = [method |-> "extract", exc |-> bod.exc]
                    /\ epc' = "raised"
                    /\ UNCHANGED <<class_attrs, self_attrs>>
               ELSE /\ attributes' = a7
                    /\ class_attrs' = o3.cls
                    /\ self_attrs' = o3.inst
                    /\ ret' = [method |-> "extract", exc |-> "none"]
                    /\ epc' = "extracted"
    /\ UNCHANGED <<instances, bytez, lief_binary, features, serviceVars, batchVars, moreVars>>

\* Columns the pickled extractor gives one text.
HashWidth == 2

NUMERICAL_ATTRIBUTES ==
    <<"baseof_code", "baseof_data", "characteristics", "dll_characteristics",
      "entropy", "file_alignment", "imagebase", "machine", "magic",
      "numberof_rva_and_size", "numberof_sections", "numberof_symbols", "PE_TYPE",
      "pointerto_symbol_table", "size", "sizeof_code", "sizeof_headers",
      "sizeof_image", "sizeof_initialized_data", "sizeof_optional_header",
      "sizeof_uninitialized_data", "timestamp">>

\* The textual attributes in another order.
TEXTUAL_ATTRIBUTES_Reordered == <<"libraries", "identify", "functions">>

TEXTUAL_ATTRIBUTES == <<"identify", "libraries", "functions">>

\* self.extractor.transform(text).toarray(): one row of HashWidth columns.
transform(text) == [j \in 1..HashWidth |-> [hashed |-> text, bucket |-> j]]

\* self.scaler.transform: every column is scaled in place.
scaler_transform(f) == [j \in 1..Len(f) |-> [scaled |-> f[j]]]

\* The values of the numeric columns, in the order of names.
NumericBlock(attrs, names) == [i \in 1..Len(names) |-> attrs[names[i]]]

\* The hashed blocks of the texts of names, one after the other.
RECURSIVE HashedBlocks(_, _)
HashedBlocks(attrs, names) ==
    IF names = <<>> THEN <<>>
    ELSE transform(attrs[Head(names)]) \o HashedBlocks(attrs, Tail(names))

\* PEFeatureExtractor.extract_features
extract_features(attrs) ==
    scaler_transform(NumericBlock(attrs, NUMERICAL_ATTRIBUTES)
                     \o HashedBlocks(attrs, TEXTUAL_ATTRIBUTES))

\* PEFeatureExtractor.extract_features on the attributes extract() returned.
CallExtractFeatures ==
    /\ epc = "extracted"
    /\ features' = extract_features(attributes)
    /\ epc' = "vectorized"
    /\ UNCHANGED <<instances, bytez, lief_binary, class_attrs, self_attrs, attributes, ret, serviceVars, batchVars, moreVars>>

\* The service of the first part is not running.
ServiceIdle ==
    /\ pc = [t \in Threads |-> "idle"]
    /\ call = [t \in Threads |-> NoCall]
    /\ tmp_path = [t \in Threads |-> 0]
    /\ X = [t \in Threads |-> NoArray]
    /\ booster = [t \in Threads |-> None]
    /\ res = [t \in Threads |-> NoOutcome]
    /\ out = [t \in Threads |-> NoOutcome]
    /\ CACHED_BOOSTER = None
    /\ loads = 0
    /\ disk = {}
    /\ importOutcome = "ok"
    /\ program = "tools"
    /\ wrap_depth = 0
    /\ vec = [t \in Threads |-> NoVec]

InitExtractor ==
    /\ ServiceIdle
    /\ BatchIdle
    /\ MoreIdle
    /\ epc = "start"
    /\ instances = <<>>
    /\ bytez = <<>>
    /\ lief_binary = NoBinary
    /\ class_attrs = [libraries |-> "", functions |-> "", exports |-> ""]
    /\ self_attrs = EmptyDict
    /\ attributes = EmptyDict
    /\ ret = NoReturn
    /\ features = <<>>

NextExtractor ==
    \/ Construct
    \/ CallExtract
    \/ CallExtractFeatures

SpecExtractor == InitExtractor /\ [][NextExtractor]_vars

\* One PEAttributeExtractor constructed on any of the byte inputs; its two
\* content statistics are called on it.
InitBytes ==
    /\ ServiceIdle
    /\ BatchIdle
    /\ MoreIdle
    /\ epc = "ready"
    /\ bytez \in ByteInputs
    /\ lief_binary \in ParseOutcomesOf(bytez)
    /\ instances = <<lief_binary>>
    /\ class_attrs = [libraries |-> "", functions |-> "", exports |-> ""]
    /\ self_attrs = EmptyDict
    /\ attributes = EmptyDict
    /\ ret = NoReturn
    /\ features = <<>>

NextBytes ==
    \/ CallExtractEntropy
    \/ CallExtractStringMetadata

SpecBytes == InitBytes /\ [][NextBytes]_vars

\* ------------------------------------------- claims on feature_extractor.py
\* The histogram of b: for each byte value, how often that byte occurs.
ByteHistogram(b) == [v \in 0..255 |-> Cardinality({i \in 1..Len(b) : b[i] = v})]

\* The reference Shannon entropy of b, as the terms of its sum.
ShannonEntropy(b) ==
    IF b = <<>> THEN ZeroEntropy ELSE [len |-> Len(b), counts |-> ByteHistogram(b)]

\* C13: extract_entropy is the Shannon entropy of the byte histogram: p_v is
\* the number of occurrences of the byte v over the length, the value for
\* empty content is 0, and no term is negative (no p_v exceeds 1).
C13_EntropyReference ==
    ret.method = "extract_entropy" =>
        /\ ret.value = ShannonEntropy(bytez)
        /\ \A x \in 0..255 : ret.value.counts[x] <= ret.value.len

\* The number of positions of b at which one of the literals alts begins.
Occurrences(b, alts, ignorecase) ==
    Cardinality({i \in 1..Len(b) : \E a \in alts : MatchesAt(b, a, i, ignorecase)})

\* C14: extract_string_metadata returns exactly four counts over the bytes:
\* c:\ and http:// or https:// in any letter case, HKEY_ and MZ in exact
\* case; the counts are a function of the bytes alone, whatever the parser
\* made of them.
C14_StringCounts ==
    ret.method = "extract_string_metadata" =>
        /\ DOMAIN ret.value = {"string_paths", "string_urls", "string_registry", "string_MZ"}
        /\ ret.value.string_paths = Occurrences(bytez, {pat_paths}, TRUE)
        /\ ret.value.string_urls = Occurrences(bytez, {pat_http, pat_https}, TRUE)
        /\ ret.value.string_registry = Occurrences(bytez, {pat_registry}, FALSE)
        /\ ret.value.string_MZ = Occurrences(bytez, {pat_mz}, FALSE)

\* Bytes that begin with MZ and hold a lower-case hkey_, which the parser
\* rejected: MZ is counted, hkey_ is not.
C14_Witness ==
    /\ ret.method = "extract_string_metadata"
    /\ lief_binary = NoBinary
    /\ ret.value.string_MZ = 1
    /\ ret.value.string_registry = 0
    /\ Occurrences(bytez, {pat_registry}, TRUE) = 1

\* C15: extract() returns the attributes or fails with one of the error
\* kinds MalformedFormat, Truncated, UnsupportedVariant; no other exception
\* reaches the caller.
C15_NoOpaqueException ==
    ret.method = "extract" =>
        ret.exc \in {"none", "MalformedFormat", "Truncated", "UnsupportedVariant"}

\* C16: when the read of optional_header.baseof_data fails, extract() goes on,
\* returns the complete attribute dict, and its baseof_data is 0; a read that
\* succeeds is kept.
C16_BaseofDataDefault ==
    (ret.method = "extract" /\ lief_binary # NoBinary) =>
        /\ ret.exc = "none"
        /\ epc \in {"extracted", "vectorized"}
        /\ DOMAIN attributes = AttributeKeys
        /\ attributes["baseof_data"] = IF lief_binary.pe32plus THEN 0 ELSE lief_binary.baseof_data

\* extract() was called on a PE32+ binary.
C16_Witness ==
    /\ ret.method = "extract"
    /\ lief_binary # NoBinary
    /\ lief_binary.pe32plus
    /\ epc = "extracted"

\* C17: after extract() of a binary without imports, libraries and functions
\* are present and are the empty string, and without exports exports_list is;
\* also when earlier instances extracted binaries with imports and exports.
C17_EmptyTextWhenAbsent ==
    (ret.method = "extract" /\ ret.exc = "none") =>
        /\ {"libraries", "functions", "exports_list"} \subseteq DOMAIN attributes
        /\ ~lief_binary.has_imports =>
            (attributes["libraries"] = "" /\ attributes["functions"] = "")
        /\ ~lief_binary.has_exports => attributes["exports_list"] = ""

\* The second instance extracted a binary with neither imports nor exports
\* after the first one extracted a binary that had both.
C17_Witness ==
    /\ Len(instances) = 2
    /\ instances[1] # NoBinary
    /\ instances[1].has_imports /\ instances[1].has_exports
    /\ ret.method = "extract" /\ ret.exc = "none"
    /\ ~lief_binary.has_imports /\ ~lief_binary.has_exports

\* C18 as stated: the numeric block is followed by four hashed blocks:
\* identify, libraries, functions and the export list.
C18_FourHashedBlocks ==
    epc = "vectorized" =>
        features = scaler_transform(
            NumericBlock(attributes, NUMERICAL_ATTRIBUTES)
            \o HashedBlocks(attributes, <<"identify", "libraries", "functions", "exports_list">>))

\* C18, amended: the output is the numeric block in the order of
\* NUMERICAL_ATTRIBUTES followed by one hashed block for each of the three
\* textual attributes identify, libraries, functions, in that order; the
\* export list is not hashed.
C18_ThreeHashedBlocks ==
    epc = "vectorized" =>
        LET n == Len(NUMERICAL_ATTRIBUTES) IN
        /\ Len(features) = n + 3 * HashWidth
        /\ \A i \in 1..n : features[i] = [scaled |-> attributes[NUMERICAL_ATTRIBUTES[i]]]
        /\ \A j \in 1..HashWidth :
            /\ features[n + j] = [scaled |-> transform(attributes["identify"])[j]]
            /\ features[n + HashWidth + j] = [scaled |-> transform(attributes["libraries"])[j]]
            /\ features[n + 2 * HashWidth + j] = [scaled |-> transform(attributes["functions"])[j]]

\* The attributes of a binary with imports and exports were vectorized.
C18_Witness ==
    /\ epc = "vectorized"
    /\ lief_binary.has_imports
    /\ lief_binary.has_exports
    /\ attributes["exports_list"] # ""

\* ============================================================ the batch tools
\* process_directory (feature_extractor.py), test_folder (test_local.py) and
\* _eval_folder (test/__main__.py) over the files of one folder.
MaxFiles == 2
ErrorsShown == 5

BatchTools == {"process_directory", "test_folder", "_eval_folder"}

\* A file of the folder: a PE that is scored with probability prob (in
\* tenths); a corrupt file, which neither lief nor the feature extraction
\* accepts; an empty file; a file that cannot be opened.
BatchFiles ==
    [kind : {"pe"}, prob : {4, 5}] \cup [kind : {"corrupt", "empty", "unreadable"}, prob : {0}]
FileLists == UNION {[1..n -> BatchFiles] : n \in 0..MaxFiles}

Min(S) == CHOOSE x \in S : \A y \in S : x <= y

\* str() of a label, and int() of what str() or dict.get's default gave.
str(label) == IF label = 0 THEN "0" ELSE "1"
int(text) ==
    IF text = "0" THEN [ok |-> TRUE, value |-> 0]
    ELSE IF text = "1" THEN [ok |-> TRUE, value |-> 1]
    ELSE [ok |-> FALSE, value |-> 0]

\* score_exe(path) with the default threshold: the scored dict for a PE, and
\* the dict of the except clause when reading or extraction fails.
score_exe(file) ==
    IF file.kind = "pe"
    THEN [NoOutcome EXCEPT !.kind = "dict", !.prob = file.prob,
                           !.label = ScoreLabel(file.prob, DefaultThreshold),
                           !.threshold = DefaultThreshold, !.width = SchemaWidth]
    ELSE IF file.kind = "unreadable" THEN FailOpenDict("OSError", "read")
    ELSE FailOpenDict("ValueError", "extract")

\* test_local.test_file: score_exe raises no Exception, so the except branch
\* of test_file is never taken.
test_file(file) == [success |-> TRUE, result |-> str(score_exe(file).label)]

\* predict_route's answer to the file's bytes posted as octet-stream.
predict_route(file) ==
    IF file.kind = "empty" THEN Response(0, 400)
    ELSE Response(score_exe(file).label, 200)

\* test/__main__.py _score_file; net is what requests.post does.
score_file(file, net) ==
    IF file.kind = "unreadable" THEN [success |-> FALSE, result |-> "OSError"]
    ELSE IF net # "ok" THEN [success |-> FALSE, result |-> net]
    ELSE IF predict_route(file).status = 200
         THEN [success |-> TRUE, result |-> str(predict_route(file).label)]
         ELSE [success |-> FALSE, result |-> "HTTP"]

\* An except clause that catches nothing.
CaughtByExcept_Nothing(exc) == FALSE

\* process_directory, line 259: except Exception.
CaughtByExcept(exc) == IsException(exc)

\* process_directory, lines 252-260: one file of the walk.
ProcessFile ==
    /\ tool = "process_directory"
    /\ bpc = "scan"
    /\ pending # {}
    /\ LET i == Min(pending)
           exc == IF files[i].kind = "unreadable" THEN "OSError"
                  ELSE IF files[i].kind = "pe" THEN "none"
                  ELSE "AttributeError"
       IN /\ pending' = pending \ {i}
          /\ IF exc = "none"
             THEN /\ rows' = Append(rows, [filepath |-> i, columns |-> AttributeKeys \cup {"filepath"}])
                  /\ UNCHANGED <<errors, bpc>>
             ELSE IF CaughtByExcept(exc)
             THEN /\ errors' = Append(errors, [name |-> i, msg |-> exc])
                  /\ UNCHANGED <<rows, bpc>>
             ELSE /\ bpc' = "aborted"
                  /\ UNCHANGED <<rows, errors>>
    /\ UNCHANGED <<tool, files, expected, correct, report, serviceVars, extractorVars, moreVars>>

\* process_directory, lines 262-276: nothing is written without rows.
ProcessReturn ==
    /\ tool = "process_directory"
    /\ bpc = "scan"
    /\ pending = {}
    /\ report' = [NoReport EXCEPT !.written = rows]
    /\ bpc' = "returned"
    /\ UNCHANGED <<tool, files, expected, pending, rows, errors, correct, serviceVars, extractorVars, moreVars>>

\* test_folder, lines 107-119: a worker of the pool finishes test_file for
\* one of the files; the results arrive in the order of completion.
TestFile ==
    /\ tool = "test_folder"
    /\ bpc = "scan"
    /\ \E i \in pending :
        /\ pending' = pending \ {i}
        /\ rows' = Append(rows, [success |-> test_file(files[i]).success,
                                 result |-> test_file(files[i]).result,
                                 file_path |-> i])
    /\ UNCHANGED <<bpc, tool, files, expected, errors, correct, report, serviceVars, extractorVars, moreVars>>

\* The entry the statistics loops add for a result that is no prediction.
ErrorEntry(name, r) ==
    [name |-> name, msg |-> IF r.success THEN "invalid label" ELSE r.result]

\* Whether a result is counted into the errors: a failure or an invalid label.
IsErrorResult(r) == ~r.success \/ ~int(r.result).ok

\* test_folder, lines 121-145: the statistics and the returned dict, which
\* shows the first five errors.
TestFolderReturn ==
    /\ tool = "test_folder"
    /\ bpc = "scan"
    /\ pending = {}
    /\ LET bad == SelectSeq(rows, IsErrorResult)
           errs == [j \in 1..Len(bad) |-> ErrorEntry(bad[j].file_path, bad[j])]
           good == {j \in 1..Len(rows) :
                       ~IsErrorResult(rows[j]) /\ int(rows[j].result).value = expected}
       IN /\ errors' = errs
          /\ correct' = Cardinality(good)
          /\ report' = [NoReport EXCEPT !.total_files = Len(files),
                                        !.correct = Cardinality(good),
                                        !.errors = SubSeq(errs, 1, Min({ErrorsShown, Len(errs)}))]
    /\ bpc' = "returned"
    /\ UNCHANGED <<tool, files, expected, pending, rows, serviceVars, extractorVars, moreVars>>

\* _eval_folder, lines 69-79: one file is posted and its answer counted.
EvalFile ==
    /\ tool = "_eval_folder"
    /\ bpc = "scan"
    /\ pending # {}
    /\ \E net \in {"ok", "ConnectionError"} :
        LET i == Min(pending)
            r == score_file(files[i], net)
        IN /\ pending' = pending \ {i}
           /\ IF IsErrorResult(r)
              THEN /\ errors' = Append(errors, ErrorEntry(i, r))
                   /\ correct' = correct
              ELSE /\ correct' = IF int(r.result).value = expected THEN correct + 1 ELSE correct
                   /\ errors' = errors
    /\ UNCHANGED <<bpc, tool, files, expected, rows, report, serviceVars, extractorVars, moreVars>>

\* _eval_folder, line 80: return total, correct, errors.
EvalReturn ==
    /\ tool = "_eval_folder"
    /\ bpc = "scan"
    /\ pending = {}
    /\ report' = [NoReport EXCEPT !.total_files = Len(files), !.correct = correct,
                                  !.errors = errors]
    /\ bpc' = "returned"
    /\ UNCHANGED <<tool, files, expected, pending, rows, errors, correct, serviceVars, extractorVars, moreVars>>

InitBatch ==
    /\ ServiceIdle
    /\ ExtractorIdle
    /\ MoreIdle
    /\ bpc = "scan"
    /\ tool \in BatchTools
    /\ files \in FileLists
    /\ expected \in (IF tool = "process_directory" THEN {0} ELSE {0, 1})
    /\ pending = 1..Len(files)
    /\ rows = <<>>
    /\ errors = <<>>
    /\ correct = 0
    /\ report = NoReport

NextBatch ==
    \/ ProcessFile
    \/ ProcessReturn
    \/ TestFile
    \/ TestFolderReturn
    \/ EvalFile
    \/ EvalReturn

SpecBatch == InitBatch /\ [][NextBatch]_vars

\* ------------------------------------------------- claims on the batch tools
\* The files of the folder that cannot be read or parsed.
FailingFiles == {i \in 1..Len(files) : files[i].kind # "pe"}

\* C19: process_directory never stops at a file; when it returns it has
\* visited all K files, holds exactly one row for each file that did not fail
\* (with the attribute columns and the file's path), in the order of the
\* walk, and has logged exactly one error for each of the E failing files.
C19_PartialFailure ==
    tool = "process_directory" =>
        /\ bpc # "aborted"
        /\ bpc = "returned" =>
            /\ pending = {}
            /\ Len(rows) = Len(files) - Cardinality(FailingFiles)
            /\ Len(errors) = Cardinality(FailingFiles)
            /\ {rows[j].filepath : j \in 1..Len(rows)} = (1..Len(files)) \ FailingFiles
            /\ {errors[j].name : j \in 1..Len(errors)} = FailingFiles
            /\ \A j \in 1..Len(rows) : rows[j].columns = AttributeKeys \cup {"filepath"}
            /\ report.written = rows

\* process_directory returned after a failing file that was followed by a
\* file that gave a row.
C19_Witness ==
    /\ tool = "process_directory"
    /\ bpc = "returned"
    /\ \E i \in FailingFiles : \E j \in 1..Len(rows) : rows[j].filepath > i

\* C20: when test_folder or _eval_folder returns, every file whose scoring
\* failed has an entry in the reported errors and is not counted as a
\* prediction, and all files were handled.
C20_ErrorsSurfaced ==
    (tool \in {"test_folder", "_eval_folder"} /\ bpc = "returned") =>
        /\ pending = {}
        /\ report.total_files = Len(files)
        /\ FailingFiles \subseteq {report.errors[j].name : j \in 1..Len(report.errors)}
        /\ report.correct <= Cardinality({i \in 1..Len(files) :
                                 i \notin FailingFiles /\ score_exe(files[i]).label = expected})

\* ======================================================== predict_proba alone
\* predict_xgb.predict_proba on an artifact that may record a best iteration.
MaxRounds == 3

\* A model file: the boosting rounds it holds (one tree each) and, when it was
\* trained with early stopping, the best iteration, which is one of them.
Artifacts ==
    {a \in [rounds : 1..MaxRounds, recorded : BOOLEAN, best_iteration : 0..(MaxRounds - 1)] :
        IF a.recorded THEN a.best_iteration < a.rounds ELSE a.best_iteration = 0}

FeatureInputs == [ndim : {1, 2}, dtype : {"float32", "float64"}, rows : {1, 2}]

\* Line 37: best_it, read with getattr(booster, "best_iteration", None), is an
\* int and not negative.
HasBestIteration(b) == b.recorded /\ b.best_iteration >= 0

\* A range that stops before the best iteration.
iteration_range_NoPlusOne(best_it) == [lo |-> 0, hi |-> best_it]

\* Line 38: iteration_range=(0, best_it + 1).
iteration_range(best_it) == [lo |-> 0, hi |-> best_it + 1]

\* booster.predict(dmat, iteration_range=r) evaluates the trees of the
\* iterations r.lo .. r.hi - 1; booster.predict(dmat) evaluates all of them.
predict_range(b, r) == {i \in 0..(b.rounds - 1) : r.lo <= i /\ i < r.hi}
predict_all(b) == 0..(b.rounds - 1)

\* predict_proba lines 29-32: the ndim test and the cast to float32.
PredictProbaCheck ==
    /\ ppc = "call"
    /\ IF in_features.ndim # 2
       THEN /\ perr' = "ValueError"
            /\ ppc' = "raised"
            /\ in_features' = in_features
       ELSE /\ in_features' = [in_features EXCEPT !.dtype = "float32"]
            /\ ppc' = "load"
            /\ perr' = perr
    /\ UNCHANGED <<artifact, loaded, evaluated, serviceVars, extractorVars, batchVars, shimVars, cliVars>>

\* predict_proba line 33: load_booster with nothing cached.
PredictProbaLoad ==
    /\ ppc = "load"
    /\ \E outcome \in {"ok", "FileNotFoundError", "XGBoostError"} :
        IF outcome = "ok"
        THEN /\ loaded' = artifact
             /\ ppc' = "predict"
             /\ perr' = perr
        ELSE /\ perr' = outcome
             /\ ppc' = "raised"
             /\ loaded' = loaded
    /\ UNCHANGED <<in_features, artifact, evaluated, serviceVars, extractorVars, batchVars, shimVars, cliVars>>

\* predict_proba lines 34-41.
PredictProbaPredict ==
    /\ ppc = "predict"
    /\ evaluated' = IF HasBestIteration(loaded)
                    THEN predict_range(loaded, iteration_range(loaded.best_iteration))
                    ELSE predict_all(loaded)
    /\ ppc' = "returned"
    /\ UNCHANGED <<in_features, artifact, loaded, perr, serviceVars, extractorVars, batchVars, shimVars, cliVars>>

InitPredict ==
    /\ ServiceIdle
    /\ ExtractorIdle
    /\ BatchIdle
    /\ ShimsIdle
    /\ CliIdle
    /\ ppc = "call"
    /\ in_features \in FeatureInputs
    /\ artifact \in Artifacts
    /\ loaded = NoArtifact
    /\ evaluated = {}
    /\ perr = "none"

NextPredict ==
    \/ PredictProbaCheck
    \/ PredictProbaLoad
    \/ PredictProbaPredict

SpecPredict == InitPredict /\ [][NextPredict]_vars

\* C22: with a best iteration b recorded in the artifact, predict_proba
\* evaluates exactly the trees of the iterations 0..b, which is not the whole
\* ensemble when later rounds exist; with none recorded it evaluates all trees.
C22_BestIteration ==
    ppc = "returned" =>
        /\ artifact.recorded => evaluated = 0..artifact.best_iteration
        /\ (artifact.recorded /\ artifact.best_iteration + 1 < artifact.rounds) =>
            evaluated # 0..(artifact.rounds - 1)
        /\ ~artifact.recorded => evaluated = 0..(artifact.rounds - 1)

\* predict_proba returned for an artifact with rounds after its best iteration.
C22_Witness ==
    /\ ppc = "returned"
    /\ artifact.recorded
    /\ artifact.best_iteration + 1 < artifact.rounds
    /\ evaluated = 0..artifact.best_iteration

\* ============================================================ ember_compat.py
\* The lief module is a record: whether it can be imported, whether it has
\* the attribute lief_errors and which modern names that holds, the legacy
\* names that are attributes of the module with what they are bound to, and
\* the attributes of lief.PE.Section.
LegacyNames ==
    {"bad_format", "bad_file", "pe_error", "parser_error", "read_out_of_bound",
     "not_implemented", "not_found"}

\* _legacy_to_modern, lines 25-33.
legacy_to_modern ==
    [bad_format |-> "file_format_error", bad_file |-> "file_error",
     pe_error |-> "parsing_error", parser_error |-> "parsing_error",
     read_out_of_bound |-> "read_out_of_bound", not_implemented |-> "not_implemented",
     not_found |-> "file_not_found"]

ModernNames == {legacy_to_modern[n] : n \in LegacyNames}

\* The lief modules a process can meet: an old release with native legacy
\* names, a new one with lief_errors, and modules on which some of the names
\* were set before.
LiefModules ==
    {[importable |-> TRUE, lief_errors |-> e, modern |-> m,
      legacy |-> [n \in present |-> "native"], section |-> sec] :
        e \in BOOLEAN, m \in {{}, {"parsing_error"}, ModernNames},
        present \in SUBSET LegacyNames, sec \in SUBSET {"data", "content"}}

\* Lines 34-37: every legacy name that is not an attribute yet is bound to
\* the modern error of lief_errors, or to Exception when that is missing.
map_legacy(l) ==
    [n \in LegacyNames |->
        IF n \in DOMAIN l.legacy THEN l.legacy[n]
        ELSE IF legacy_to_modern[n] \in l.modern THEN legacy_to_modern[n]
        ELSE "Exception"]

\* An except clause that only passes.
legacy_fallback_Pass(l) == l.legacy

\* Lines 38-52: every legacy name that is not an attribute yet is bound to
\* the class _DummyException.
legacy_fallback(l) ==
    [n \in LegacyNames |-> IF n \in DOMAIN l.legacy THEN l.legacy[n] ELSE "_DummyException"]

\* Lines 55-65: Section.data is added when only Section.content exists.
patch_section(sec) ==
    IF "data" \notin sec /\ "content" \in sec THEN sec \cup {"data"} ELSE sec

\* apply_ember_lief_shims: the import of lief raises ImportError when lief is
\* missing; getattr(lief, "lief_errors") raises AttributeError when the module
\* has no such attribute, which sends the run into the fallback.
ApplyShims ==
    /\ spc = "start"
    /\ LET exc == IF lief.importable THEN "none" ELSE "ImportError"
           legacy == IF lief.lief_errors THEN map_legacy(lief) ELSE legacy_fallback(lief)
       IN /\ lief' = IF exc = "none"
                     THEN [lief EXCEPT !.legacy = legacy, !.section = patch_section(lief.section)]
                     ELSE lief
          /\ shim_exc' = IF IsException(exc) THEN "none" ELSE exc
    /\ spc' = "applied"
    /\ UNCHANGED <<serviceVars, extractorVars, batchVars, predictVars, cliVars>>

\* test_ember_compat_runtime.main, lines 70-73: import lief and look for the
\* seven names.
CheckLegacyNames ==
    /\ spc = "applied"
    /\ shim_exc' = IF ~lief.importable THEN "ImportError"
                   ELSE IF \E n \in LegacyNames : n \notin DOMAIN lief.legacy THEN "RuntimeError"
                   ELSE "none"
    /\ spc' = "checked"
    /\ UNCHANGED <<lief, serviceVars, extractorVars, batchVars, predictVars, cliVars>>

InitShims ==
    /\ ServiceIdle
    /\ ExtractorIdle
    /\ BatchIdle
    /\ PredictIdle
    /\ CliIdle
    /\ spc = "start"
    /\ lief \in LiefModules \cup {NoLief}
    /\ lief.lief_errors \/ lief.modern = {}
    /\ shim_exc = "none"

NextShims ==
    \/ ApplyShims
    \/ CheckLegacyNames

SpecShims == InitShims /\ [][NextShims]_vars

\* C23: apply_ember_lief_shims never raises, and when lief can be imported
\* each of the seven legacy names is an attribute of the module afterwards,
\* whichever branch ran, so the runtime test's check finds them all; names
\* that were attributes before keep what they were bound to.
C23_LegacyNamesPresent ==
    /\ spc = "applied" => shim_exc = "none"
    /\ (spc \in {"applied", "checked"} /\ lief.importable) =>
        /\ DOMAIN lief.legacy = LegacyNames
        /\ shim_exc = "none"
        /\ \A n \in LegacyNames :
            lief.legacy[n] \in {"native", "Exception", "_DummyException", legacy_to_modern[n]}

\* The fallback ran on a module without lief_errors that had some of the
\* names: the others are bound to _DummyException.
C23_Witness ==
    /\ spc = "applied"
    /\ lief.importable
    /\ ~lief.lief_errors
    /\ \E n, k \in LegacyNames : lief.legacy[n] = "_DummyException" /\ lief.legacy[k] = "native"

\* ============================================================ test/__main__.py
\* A source path is missing, a folder, a single file, an archive that
\* unpacks, or a file with an archive name that shutil.unpack_archive cannot
\* read. A path of 0 is the source itself; a positive path is a temporary
\* directory made by tempfile.mkdtemp.
SrcKinds == {"missing", "folder", "file", "archive", "corrupt"}

Which == {"mal", "ben"}

\* _is_archive, lines 24-26: decided by the name only.
is_archive(kind) == kind \in {"archive", "corrupt"}

Range(q) == {q[i] : i \in DOMAIN q}

\* main, lines 89-96: a path that does not exist ends the run with 2 before
\* the try statement.
CheckPaths ==
    /\ cpc = "start"
    /\ IF srcs.mal = "missing" \/ srcs.ben = "missing"
       THEN cpc' = "exited" /\ cexit' = "2"
       ELSE cpc' = "extract_mal" /\ cexit' = cexit
    /\ UNCHANGED <<srcs, paths, tmpdirs, cleanup>>
    /\ UNCHANGED <<serviceVars, extractorVars, batchVars, predictVars, shimVars>>

\* _extract_if_archive, lines 29-34, called at lines 101 and 102: mkdtemp
\* makes the directory before unpack_archive runs, and an exception of
\* unpack_archive leaves the try block for the finally clause.
ExtractIfArchive(w) ==
    /\ cpc = (IF w = "mal" THEN "extract_mal" ELSE "extract_ben")
    /\ LET tmpdir == Cardinality(tmpdirs) + 1
           after == IF w = "mal" THEN "extract_ben" ELSE "append"
       IN IF ~is_archive(srcs[w])
          THEN /\ paths' = [paths EXCEPT ![w] = 0]
               /\ cpc' = after
               /\ UNCHANGED <<tmpdirs, cexit>>
          ELSE /\ tmpdirs' = tmpdirs \cup {tmpdir}
               /\ IF srcs[w] = "archive"
                  THEN /\ paths' = [paths EXCEPT ![w] = tmpdir]
                       /\ cpc' = after
                       /\ cexit' = cexit
                  ELSE /\ paths' = paths
                       /\ cpc' = "finally"
                       /\ cexit' = "raised"
    /\ UNCHANGED <<srcs, cleanup>>
    /\ UNCHANGED <<serviceVars, extractorVars, batchVars, predictVars, shimVars>>

\* main, lines 103-106: the extracted paths enter the cleanup list once both
\* extractions have returned.
AppendCleanup ==
    /\ cpc = "append"
    /\ cleanup' = (IF paths.mal # 0 THEN <<paths.mal>> ELSE <<>>)
                  \o (IF paths.ben # 0 THEN <<paths.ben>> ELSE <<>>)
    /\ cpc' = "eval_mal"
    /\ UNCHANGED <<srcs, paths, tmpdirs, cexit>>
    /\ UNCHANGED <<serviceVars, extractorVars, batchVars, predictVars, shimVars>>

\* main, lines 109 and 115: _eval_folder returns, or an exception (an
\* unreadable directory, an interrupt) leaves the try block; after the benign
\* folder the function reaches return 0.
EvalFolder(w) ==
    /\ cpc = (IF w = "mal" THEN "eval_mal" ELSE "eval_ben")
    /\ \E raised \in BOOLEAN :
        IF raised
        THEN cpc' = "finally" /\ cexit' = "raised"
        ELSE IF w = "mal"
             THEN cpc' = "eval_ben" /\ cexit' = cexit
             ELSE cpc' = "finally" /\ cexit' = "0"
    /\ UNCHANGED <<srcs, paths, tmpdirs, cleanup>>
    /\ UNCHANGED <<serviceVars, extractorVars, batchVars, predictVars, shimVars>>

\* main, lines 126-131: the finally clause removes the directories of the
\* cleanup list.
Finally ==
    /\ cpc = "finally"
    /\ tmpdirs' = tmpdirs \ Range(cleanup)
    /\ cpc' = "exited"
    /\ UNCHANGED <<srcs, paths, cleanup, cexit>>
    /\ UNCHANGED <<serviceVars, extractorVars, batchVars, predictVars, shimVars>>

InitCli ==
    /\ ServiceIdle
    /\ ExtractorIdle
    /\ BatchIdle
    /\ PredictIdle
    /\ ShimsIdle
    /\ cpc = "start"
    /\ srcs \in [Which -> SrcKinds]
    /\ paths = [mal |-> 0, ben |-> 0]
    /\ tmpdirs = {}
    /\ cleanup = <<>>
    /\ cexit = "none"

NextCli ==
    \/ CheckPaths
    \/ ExtractIfArchive("mal")
    \/ ExtractIfArchive("ben")
    \/ AppendCleanup
    \/ EvalFolder("mal")
    \/ EvalFolder("ben")
    \/ Finally

SpecCli == InitCli /\ [][NextCli]_vars

\* C25: when main has returned or raised, no temporary directory made by
\* _extract_if_archive during the run still exists, on every exit path,
\* including the one where unpacking raised after the directory was made.
C25_TmpDirsRemoved == cpc = "exited" => tmpdirs = {}

====
